---- MODULE Spec2Model ----
(***************************************************************************)
(* Model of src/main.py (Qwen TTS desktop control surface): the capture    *)
(* recorder, the sample library, the model cache and the background        *)
(* generation / playback pipeline, with the Qt control thread consuming a  *)
(* FIFO queue of signals posted by worker threads.                         *)
(*                                                                         *)
(* Strings are sequences of one-character strings; file names end in an   *)
(* extension token (".wav" / ".txt").  str.strip, sorted(), strftime and   *)
(* Path.with_suffix are computed, not assumed.                             *)
(*                                                                         *)
(* A thread is part of the state while it runs.  A _generate thread        *)
(* carries the record of what it has called and emitted so far; its last   *)
(* step hands that record to the `done` signal it emits, so that what a    *)
(* submission did can be read off its terminal notification.               *)
(***************************************************************************)
EXTENDS Integers, Sequences, FiniteSets, Bags, TLC

\* ------------------------------------------------------------------ bounds
\* _load_model threads running at once, in SpecCache
MaxLoads == 3
\* _load_model threads running at once, in the other specifications
MaxBusyLoads == 1
\* _generate threads running at once, in SpecGen
MaxWorkers == 1
\* _generate threads running at once, in SpecFlight
MaxFlight == 2
\* signals waiting in the control thread's event queue
MaxQueue == 1
\* chunks the input stream delivers in one recording session
MaxChunks == 2
\* last second of the wall clock the program is run to
MaxClock == 10

\* --------------------------------------------------------------- constants
SAMPLE_RATE == 24000

Modes == {"CustomVoice", "VoiceDesign", "VoiceClone"}

\* characters in code-point order: ' ' < '(' < '.' < '0'..'9' < 'a' < 'z'
Alphabet == <<" ", "(", ".wav", ".txt", "0", "1", "2", "3", "4", "5", "6",
              "7", "8", "9", "a", "z">>

Ord(c) == CHOOSE i \in 1..Len(Alphabet) : Alphabet[i] = c

Digits == <<"0", "1", "2", "3", "4", "5", "6", "7", "8", "9">>

\* ------------------------------------------------------- string operations
RECURSIVE lstrip(_)
lstrip(s) == IF s # <<>> /\ Head(s) = " " THEN lstrip(Tail(s)) ELSE s

RECURSIVE rstrip(_)
rstrip(s) ==
    IF s # <<>> /\ s[Len(s)] = " " THEN rstrip(SubSeq(s, 1, Len(s) - 1)) ELSE s

\* a forgotten .strip()
strip_missing(s) == s

\* str.strip()
strip(s) == rstrip(lstrip(s))

\* Python's str ordering: a < b
RECURSIVE StrLess(_, _)
StrLess(a, b) ==
    IF b = <<>> THEN FALSE
    ELSE IF a = <<>> THEN TRUE
    ELSE IF Head(a) = Head(b) THEN StrLess(Tail(a), Tail(b))
    ELSE Ord(Head(a)) < Ord(Head(b))

\* sorted(S) for a finite set of strings
RECURSIVE sorted(_)
sorted(S) ==
    IF S = {} THEN <<>>
    ELSE LET m == CHOOSE x \in S : \A y \in S \ {x} : StrLess(x, y)
         IN  <<m>> \o sorted(S \ {m})

\* Path(name).with_suffix(".txt")
with_suffix_txt(name) ==
    IF name # <<>> /\ name[Len(name)] \in {".wav", ".txt"}
    THEN SubSeq(name, 1, Len(name) - 1) \o <<".txt">>
    ELSE name \o <<".txt">>

\* datetime.now().strftime("%Y%m%d_%H%M%S"): fixed width, zero padded
strftime(t) == <<Digits[((t \div 10) % 10) + 1], Digits[(t % 10) + 1]>>

\* ------------------------------------------------------------------- state
VARIABLES
    current_mode,     \* self.current_mode
    ui_mode,          \* the mode whose widgets _update_ui_for_mode left visible
    models,           \* self.models: mode -> handle, NoModel for an absent key
    say_enabled,      \* self.say_btn.isEnabled()
    status_label,     \* self.status_label text, <<text, argument>>
    ref_text_edit,    \* self.ref_text_edit.text()
    combo_items,      \* self.sample_combo items
    combo_index,      \* self.sample_combo.currentIndex() (1-based)
    dir_exists,       \* SAMPLES_DIR.exists()
    wavs,             \* *.wav files of SAMPLES_DIR: name -> content
    txts,             \* *.txt files of SAMPLES_DIR: name -> text
    recording,        \* self.recording
    recorded_frames,  \* self.recorded_frames
    input_stream,     \* self.input_stream: "unset", "open" or "closed"
    record_btn,       \* self.record_btn text
    clock,            \* wall clock, in seconds
    loaders,          \* the running _load_model threads (a bag)
    workers,          \* the running _generate threads (a bag)
    queue,            \* signals posted to the control thread, FIFO
    rec_log           \* history: outcome of the last record toggle or
                      \* transcript save, and the chunks the driver delivered
                      \* since the last start

vars == <<current_mode, ui_mode, models, say_enabled, status_label,
          ref_text_edit, combo_items, combo_index, dir_exists, wavs, txts,
          recording, recorded_frames, input_stream, record_btn, clock,
          loaders, workers, queue, rec_log>>

recVars == <<recording, recorded_frames, input_stream, record_btn, clock,
             rec_log>>

fsVars == <<dir_exists, wavs, txts>>

comboVars == <<combo_items, combo_index>>

\* a key absent from self.models; the handle load_model returns for a mode
NoModel == <<>>
Handle(mode) == <<"model", mode>>

None == "None"

\* texts the user can have typed into text_edit / ref_text_edit
Texts == {<<>>, <<" ">>, <<" ", "a", " ">>}

\* messages an external collaborator can raise
SynthError == "synthesis failed"
PlayError == "device unavailable"
ConcatError == "need at least one array to concatenate"

\* str(KeyError(mode))
KeyErrorMsg(mode) ==
    CASE mode = "CustomVoice" -> "'CustomVoice'"
      [] mode = "VoiceDesign" -> "'VoiceDesign'"
      [] mode = "VoiceClone" -> "'VoiceClone'"

\* "(no samples - record one)", abbreviated to its first character
Placeholder == <<"(">>

\* ------------------------------------------------------------ sample library
\* list_samples()
list_samples == IF ~dir_exists THEN <<>> ELSE sorted(DOMAIN wavs)

\* the items _populate_samples puts into sample_combo
PopulatedItems(samples) == IF samples # <<>> THEN samples ELSE <<Placeholder>>

\* self.sample_combo.currentText()
currentText == combo_items[combo_index]

\* txt_path.read_text().strip() if txt_path.exists() else ""
TranscriptOf(files, name) ==
    IF with_suffix_txt(name) \in DOMAIN files
    THEN strip(files[with_suffix_txt(name)]) ELSE <<>>

\* sample_path.exists() for sample_path = SAMPLES_DIR / name
PathExists(name) == dir_exists /\ name \in (DOMAIN wavs \cup DOMAIN txts)

\* ---------------------------------------------------------- initial states
NoFiles == [n \in {} |-> <<>>]

OldWav == [nchannels |-> 1, sampwidth |-> 2, framerate |-> SAMPLE_RATE,
           frames |-> <<0>>]

\* sample directories the program can be started on: absent; empty; or
\* holding an earlier recording and a sample the user copied in under a name
\* of their own, with its transcript
InitDirs ==
    { [exists |-> FALSE, wavs |-> NoFiles, txts |-> NoFiles],
      [exists |-> TRUE, wavs |-> NoFiles, txts |-> NoFiles],
      [exists |-> TRUE,
       wavs |-> [n \in {<<"0", "8", ".wav">>, <<"z", ".wav">>} |-> OldWav],
       txts |-> [n \in {<<"z", ".txt">>} |-> <<"z">>]] }

\* what the record button has done so far: nothing
NoSession == [last |-> "none", session |-> <<>>]

\* a _load_model(mode) thread about to call load_model
Loader(mode) == [mode |-> mode, pc |-> "load"]

\* App.__init__
Init ==
    /\ \E d \in InitDirs :
          /\ dir_exists = d.exists
          /\ wavs = d.wavs
          /\ txts = d.txts
          /\ combo_items =
               PopulatedItems(IF d.exists THEN sorted(DOMAIN d.wavs) ELSE <<>>)
    /\ combo_index = 1
    /\ ref_text_edit = <<>>
    /\ status_label = <<"Loading model...", None>>
    /\ say_enabled = FALSE
    /\ recording = FALSE
    /\ recorded_frames = <<>>
    /\ input_stream = "unset"
    /\ record_btn = "Record"
    /\ clock = MaxClock - 1
    /\ models = [m \in Modes |-> NoModel]
    /\ current_mode = "CustomVoice"
    /\ ui_mode = "CustomVoice"
    /\ loaders = SetToBag({Loader("CustomVoice")})
    /\ workers = EmptyBag
    /\ queue = <<>>
    /\ rec_log = NoSession

\* ------------------------------------------------------------ user editing
\* the user replaces the content of ref_text_edit, which is visible in the
\* VoiceClone layout only (editingFinished comes later)
TypeRefText(t) ==
    /\ ui_mode = "VoiceClone"
    /\ t # ref_text_edit
    /\ ref_text_edit' = t
    /\ UNCHANGED <<current_mode, ui_mode, models, say_enabled, status_label,
                   comboVars, fsVars, recVars, loaders, workers, queue>>

\* ------------------------------------------------------------- signal queue
\* signal.emit(...) from a worker thread: posted to the control thread's
\* queue; src is the record of the thread that emits its last signal
Emit(sig, arg, src) ==
    /\ Len(queue) < MaxQueue
    /\ queue' = Append(queue, [sig |-> sig, arg |-> arg, src |-> src])

\* ------------------------------------------------------------- model cache
\* threading.Thread(target=self._load_model, args=(mode,)).start()
StartLoader(mode) == loaders' = loaders (+) SetToBag({Loader(mode)})

\* _load_model, lines 435-436: load_model(MODELS[mode]) returns a handle,
\* which is stored in self.models, or raises (the thread then dies: nothing
\* catches the exception).  The call is local to the thread, so it is one
\* step with the store that follows it.
_load_model_load(l) ==
    /\ l.pc = "load"
    /\ \/ /\ loaders' = (loaders (-) SetToBag({l}))
                          (+) SetToBag({[l EXCEPT !.pc = "emit"]})
          /\ models' = [models EXCEPT ![l.mode] = Handle(l.mode)]
       \/ /\ loaders' = loaders (-) SetToBag({l})
          /\ UNCHANGED models
    /\ UNCHANGED <<current_mode, ui_mode, say_enabled, status_label,
                   ref_text_edit, comboVars, fsVars, recVars, workers, queue>>

\* _load_model, line 438: self.signals.model_ready.emit(mode, voices)
_load_model_emit(l) ==
    /\ l.pc = "emit"
    /\ Emit("model_ready", l.mode, None)
    /\ loaders' = loaders (-) SetToBag({l})
    /\ UNCHANGED <<current_mode, ui_mode, models, say_enabled, status_label,
                   ref_text_edit, comboVars, fsVars, recVars, workers>>

\* _update_ui_for_mode: shows the widgets of self.current_mode
_update_ui_for_mode == ui_mode' = current_mode'

\* slot of signals.model_ready, run by the control thread
_on_model_ready ==
    /\ queue # <<>>
    /\ Head(queue).sig = "model_ready"
    /\ queue' = Tail(queue)
    /\ UNCHANGED <<current_mode, models, ref_text_edit, comboVars, fsVars,
                   recVars, loaders, workers>>
    /\ _update_ui_for_mode
    /\ say_enabled' = TRUE
    /\ status_label' = <<"Ready", None>>

\* slot of mode_combo.currentTextChanged
_on_mode_changed(mode) ==
    /\ mode # current_mode
    /\ current_mode' = mode
    /\ IF models[mode] # NoModel
       THEN /\ _update_ui_for_mode
            /\ UNCHANGED <<say_enabled, status_label, loaders>>
       ELSE /\ UNCHANGED ui_mode
            /\ say_enabled' = FALSE
            /\ status_label' = <<"Loading model: ", mode>>
            /\ StartLoader(mode)
    /\ UNCHANGED <<models, ref_text_edit, comboVars, fsVars, recVars, workers,
                   queue>>

\* ---------------------------------------------------------------- generation
\* audio segments a synthesis entry point can yield
Seg1 == [audio |-> <<1>>, sample_rate |-> SAMPLE_RATE]
Seg2 == [audio |-> <<2, 3>>, sample_rate |-> 2 * SAMPLE_RATE]
ResultLists == {<<>>, <<Seg1>>, <<Seg1, Seg2>>}

\* np.concatenate(chunks) over the segments' audio
RECURSIVE concatenate(_)
concatenate(rs) ==
    IF rs = <<>> THEN <<>> ELSE Head(rs).audio \o concatenate(Tail(rs))

\* the entry point _generate calls for a mode (lines 547-565)
EntryPoint(mode) ==
    CASE mode = "CustomVoice" -> "generate_custom_voice"
      [] mode = "VoiceDesign" -> "generate_voice_design"
      [] OTHER -> "generate"

\* a _generate(mode, text, ..., ref_audio, ref_text, ...) thread at its start
Worker(mode, text, ref_audio, ref_text) ==
    [mode |-> mode, text |-> text, ref_audio |-> ref_audio,
     ref_text |-> ref_text, pc |-> "synth", audio |-> <<>>, sr |-> 0,
     err |-> None, synth_calls |-> <<>>, play_calls |-> <<>>,
     emitted |-> <<>>]

\* worker w moves on as w2; worker w's thread ends
WorkerMoves(w, w2) == workers' = (workers (-) SetToBag({w})) (+) SetToBag({w2})
WorkerEnds(w) == workers' = workers (-) SetToBag({w})

\* slot of say_btn.clicked and of the Ctrl+Return shortcut; text_edit is what
\* the user has typed into self.text_edit, which no code writes
_on_say(text_edit) ==
    LET text == strip(text_edit)
        mode == current_mode
        is_clone == mode = "VoiceClone"
        sample_name == currentText
        ref_text == strip(ref_text_edit)
    IN  IF text = <<>> \/ ~say_enabled
        THEN UNCHANGED vars
        ELSE IF is_clone /\ ~PathExists(sample_name)
        THEN /\ status_label' = <<"Record a sample first", None>>
             /\ UNCHANGED <<current_mode, ui_mode, models, say_enabled,
                            ref_text_edit, comboVars, fsVars, recVars,
                            loaders, workers, queue>>
        ELSE IF is_clone /\ ref_text = <<>>
        THEN /\ status_label' = <<"Enter reference text", None>>
             /\ UNCHANGED <<current_mode, ui_mode, models, say_enabled,
                            ref_text_edit, comboVars, fsVars, recVars,
                            loaders, workers, queue>>
        ELSE /\ say_enabled' = FALSE
             /\ status_label' = <<"Generating...", None>>
             /\ workers' = workers (+) SetToBag({
                    Worker(mode, text,
                           IF is_clone THEN sample_name ELSE None,
                           IF is_clone THEN ref_text ELSE None)})
             /\ UNCHANGED <<current_mode, ui_mode, models, ref_text_edit,
                            comboVars, fsVars, recVars, loaders, queue>>

WorkerUnchanged ==
    UNCHANGED <<current_mode, ui_mode, models, say_enabled, status_label,
                ref_text_edit, comboVars, fsVars, recVars, loaders>>

\* _generate, lines 545-569: model = self.models[mode] (KeyError when the
\* key is absent); the mode's entry point is called and raises, or yields
\* segments that are concatenated (no segment: np.concatenate raises); sr is
\* the sample_rate of `result`, the loop variable, after the loop.  The call
\* is logged with the segments it returned.  All but the read of self.models
\* is local to the thread: one step.
_generate_synth(w) ==
    /\ w.pc = "synth"
    /\ LET model == models[w.mode]
           called(results) ==
               [w EXCEPT !.synth_calls = Append(@,
                   [entry |-> EntryPoint(w.mode), model |-> model,
                    text |-> w.text, returned |-> results])]
       IN  IF model = NoModel
           THEN WorkerMoves(w, [w EXCEPT !.err = KeyErrorMsg(w.mode),
                                         !.pc = "except_status"])
           ELSE \/ WorkerMoves(w, [called(<<>>) EXCEPT
                                     !.err = SynthError,
                                     !.pc = "except_status"])
                \/ \E results \in ResultLists :
                      IF results = <<>>
                      THEN WorkerMoves(w, [called(results) EXCEPT
                                             !.err = ConcatError,
                                             !.pc = "except_status"])
                      ELSE WorkerMoves(w, [called(results) EXCEPT
                             !.audio = concatenate(results),
                             !.sr = results[Len(results)].sample_rate,
                             !.pc = "emit_playing"])
    /\ UNCHANGED queue
    /\ WorkerUnchanged

\* _generate, line 571: self.signals.status.emit("Playing...")
_generate_emit_playing(w) ==
    /\ w.pc = "emit_playing"
    /\ Emit("status", <<"Playing...", None>>, None)
    /\ WorkerMoves(w, [w EXCEPT !.pc = "play",
                         !.emitted = Append(@, <<"status", "Playing...">>)])
    /\ WorkerUnchanged

\* _generate, lines 572-573: sd.play(...); sd.wait() return or raise
_generate_play(w) ==
    /\ w.pc = "play"
    /\ LET played == [w EXCEPT !.audio = <<>>, !.sr = 0,
                        !.play_calls = Append(@,
                           [audio |-> w.audio, samplerate |-> w.sr])]
       IN  \/ WorkerMoves(w, [played EXCEPT !.pc = "emit_done"])
           \/ WorkerMoves(w, [played EXCEPT !.err = PlayError,
                                            !.pc = "except_status"])
    /\ UNCHANGED queue
    /\ WorkerUnchanged

\* an except branch that reports a bare "Error" without the message
_generate_except_nomsg(w) ==
    /\ w.pc = "except_status"
    /\ Emit("status", <<"Error: ", None>>, None)
    /\ WorkerMoves(w, [w EXCEPT !.pc = "except_done",
                         !.emitted = Append(@, <<"status", "Error: ", None>>)])
    /\ WorkerUnchanged

\* _generate, line 575: self.signals.status.emit(f"Error: {e}")
_generate_except_status(w) ==
    /\ w.pc = "except_status"
    /\ Emit("status", <<"Error: ", w.err>>, None)
    /\ WorkerMoves(w, [w EXCEPT !.pc = "except_done",
                         !.emitted = Append(@, <<"status", "Error: ", w.err>>)])
    /\ WorkerUnchanged

\* the thread returns after emitting `done`
Finished(w) == [w EXCEPT !.pc = "finished", !.emitted = Append(@, <<"done">>)]

\* an except branch that forgets to emit `done`
_generate_except_silent(w) ==
    /\ w.pc = "except_done"
    /\ WorkerEnds(w)
    /\ UNCHANGED queue
    /\ WorkerUnchanged

\* _generate, lines 576-577: self.signals.done.emit(); return
_generate_except_done(w) ==
    /\ w.pc = "except_done"
    /\ Emit("done", None, Finished(w))
    /\ WorkerEnds(w)
    /\ WorkerUnchanged

\* _generate, line 578: self.signals.done.emit()
_generate_done(w) ==
    /\ w.pc = "emit_done"
    /\ Emit("done", None, Finished(w))
    /\ WorkerEnds(w)
    /\ WorkerUnchanged

\* slot of signals.status, run by the control thread
_set_status ==
    /\ queue # <<>>
    /\ Head(queue).sig = "status"
    /\ queue' = Tail(queue)
    /\ status_label' = Head(queue).arg
    /\ UNCHANGED <<current_mode, ui_mode, models, say_enabled, ref_text_edit,
                   comboVars, fsVars, recVars, loaders, workers>>

\* slot of signals.done, run by the control thread
_on_done ==
    /\ queue # <<>>
    /\ Head(queue).sig = "done"
    /\ queue' = Tail(queue)
    /\ say_enabled' = TRUE
    /\ status_label' = <<"Ready", None>>
    /\ UNCHANGED <<current_mode, ui_mode, models, ref_text_edit, comboVars,
                   fsVars, recVars, loaders, workers>>

\* ----------------------------------------------------------------- recorder
\* indata blocks the driver can deliver: 1 or 2 frames of one channel
Chunks == {<<1>>, <<0, -1>>}

\* np.concatenate(self.recorded_frames).flatten()
RECURSIVE flatten(_)
flatten(fs) == IF fs = <<>> THEN <<>> ELSE Head(fs) \o flatten(Tail(fs))

\* (audio * 32767).astype(np.int16)
astype_int16(audio) ==
    [i \in 1..Len(audio) |-> ((audio[i] * 32767 + 32768) % 65536) - 32768]

\* datetime.now().strftime("%Y%m%d_%H%M%S") + ".wav"
filename == strftime(clock) \o <<".wav">>

\* the file the wave module writes, lines 420-424
NewWav == [nchannels |-> 1, sampwidth |-> 2, framerate |-> SAMPLE_RATE,
           frames |-> astype_int16(flatten(recorded_frames))]

\* time passes
Tick ==
    /\ clock < MaxClock
    /\ clock' = clock + 1
    /\ UNCHANGED <<current_mode, ui_mode, models, say_enabled, status_label,
                   ref_text_edit, comboVars, fsVars, recording,
                   recorded_frames, input_stream, record_btn, loaders,
                   workers, queue, rec_log>>

\* _on_sample_changed, after the user picks item i of sample_combo, which is
\* visible in the VoiceClone layout only
SelectSample(i) ==
    /\ ui_mode = "VoiceClone"
    /\ i \in 1..Len(combo_items)
    /\ i # combo_index
    /\ combo_index' = i
    /\ ref_text_edit' = TranscriptOf(txts, combo_items[i])
    /\ UNCHANGED <<current_mode, ui_mode, models, say_enabled, status_label,
                   combo_items, fsVars, recVars, loaders, workers, queue>>

\* a start that keeps the chunks of the session before
_start_recording_keep ==
    /\ recording' = TRUE
    /\ UNCHANGED recorded_frames
    /\ record_btn' = "Stop"
    /\ status_label' = <<"Recording...", None>>
    /\ input_stream' = "active"
    /\ rec_log' = [last |-> "started", session |-> <<>>]
    /\ UNCHANGED <<current_mode, ui_mode, models, say_enabled, ref_text_edit,
                   comboVars, fsVars, clock, loaders, workers, queue>>

\* _start_recording: the flag, the buffer, the button and the status are set
\* before the stream is opened; sd.InputStream(...) can raise (input_stream
\* keeps what it was), and so can input_stream.start() (the new stream is
\* assigned but delivers nothing)
_start_recording ==
    /\ recording' = TRUE
    /\ recorded_frames' = <<>>
    /\ record_btn' = "Stop"
    /\ status_label' = <<"Recording...", None>>
    /\ \/ /\ input_stream' = "active"
          /\ rec_log' = [last |-> "started", session |-> <<>>]
       \/ /\ UNCHANGED input_stream
          /\ rec_log' = [last |-> "open_raised", session |-> <<>>]
       \/ /\ input_stream' = "stopped"
          /\ rec_log' = [last |-> "start_raised", session |-> <<>>]
    /\ UNCHANGED <<current_mode, ui_mode, models, say_enabled, ref_text_edit,
                   comboVars, fsVars, clock, loaders, workers, queue>>

\* callback(indata, ...), run by the driver while the stream is active
callback(indata) ==
    /\ input_stream = "active"
    /\ Len(recorded_frames) < MaxChunks
    /\ recorded_frames' = Append(recorded_frames, indata)
    /\ rec_log' = [rec_log EXCEPT !.session = Append(@, indata)]
    /\ UNCHANGED <<current_mode, ui_mode, models, say_enabled, status_label,
                   ref_text_edit, comboVars, fsVars, recording, input_stream,
                   record_btn, clock, loaders, workers, queue>>

\* _refresh_samples, the slot of recording_saved, called directly by emit():
\* the combo is filled again and its last item selected; the combo's
\* currentTextChanged runs _on_sample_changed for the item that ends selected
_refresh_samples ==
    /\ combo_items' = PopulatedItems(sorted(DOMAIN wavs'))
    /\ combo_index' = Len(combo_items')
    /\ ref_text_edit' = TranscriptOf(txts', combo_items'[combo_index'])

\* _stop_recording.  self.input_stream.stop() raises AttributeError when no
\* stream was ever assigned; on a closed stream PortAudio is handed a freed
\* pointer, and the call either returns its error code, which sounddevice
\* ignores, or fails.  Then: nothing captured -> "Ready"; else the directory
\* is made and the wave file written (the write can raise), the transcript
\* is written if there is one (the write can raise), and recording_saved runs
\* _refresh_samples.
_stop_recording ==
    /\ recording' = FALSE
    /\ record_btn' = "Record"
    /\ UNCHANGED <<current_mode, ui_mode, models, say_enabled, recorded_frames,
                   clock, loaders, workers, queue>>
    /\ \/ /\ input_stream \in {"unset", "closed"}
          /\ rec_log' = [rec_log EXCEPT !.last = "stop_raised"]
          /\ UNCHANGED <<input_stream, status_label, ref_text_edit, comboVars,
                         fsVars>>
       \/ /\ input_stream # "unset"
          /\ input_stream' = "closed"
          /\ recorded_frames = <<>>
          /\ status_label' = <<"Ready", None>>
          /\ rec_log' = [rec_log EXCEPT !.last = "empty"]
          /\ UNCHANGED <<ref_text_edit, comboVars, fsVars>>
       \/ /\ input_stream # "unset"
          /\ input_stream' = "closed"
          /\ recorded_frames # <<>>
          /\ dir_exists' = TRUE
          /\ \/ /\ rec_log' = [rec_log EXCEPT !.last = "wav_raised"]
                /\ UNCHANGED <<wavs, txts, status_label, ref_text_edit,
                               comboVars>>
             \/ /\ wavs' = [n \in DOMAIN wavs \cup {filename} |->
                              IF n = filename THEN NewWav ELSE wavs[n]]
                /\ LET ref_text == strip(ref_text_edit)
                       txt == with_suffix_txt(filename)
                   IN  \/ /\ ref_text # <<>>
                          /\ rec_log' = [rec_log EXCEPT !.last = "txt_raised"]
                          /\ UNCHANGED <<txts, status_label, ref_text_edit,
                                         comboVars>>
                       \/ /\ txts' = IF ref_text = <<>> THEN txts
                                     ELSE [n \in DOMAIN txts \cup {txt} |->
                                             IF n = txt THEN ref_text
                                             ELSE txts[n]]
                          /\ status_label' = <<"Saved ", filename>>
                          /\ rec_log' = [rec_log EXCEPT !.last = "saved"]
                          /\ _refresh_samples

\* _on_record_toggle, the slot of record_btn.clicked
_on_record_toggle ==
    IF ~recording THEN _start_recording ELSE _stop_recording

\* ----------------------------------------------------------- transcripts
\* a save that writes whatever the field holds, the empty text too
_save_ref_text_always ==
    /\ dir_exists
    /\ LET txt == with_suffix_txt(currentText)
       IN  txts' = [n \in DOMAIN txts \cup {txt} |->
                      IF n = txt THEN strip(ref_text_edit) ELSE txts[n]]
    /\ rec_log' = [rec_log EXCEPT !.last = "transcript_saved"]
    /\ UNCHANGED <<current_mode, ui_mode, models, say_enabled, status_label,
                   ref_text_edit, comboVars, dir_exists, wavs, recording,
                   recorded_frames, input_stream, record_btn, clock, loaders,
                   workers, queue>>

\* _save_ref_text, the slot of ref_text_edit.editingFinished: the trimmed text
\* is written to the .txt sibling of the selected item when it is not empty
\* and the directory exists; the write can raise
_save_ref_text ==
    /\ LET ref_text == strip(ref_text_edit)
           txt == with_suffix_txt(currentText)
       IN  IF ref_text # <<>> /\ dir_exists
           THEN \/ /\ txts' = [n \in DOMAIN txts \cup {txt} |->
                                 IF n = txt THEN ref_text ELSE txts[n]]
                   /\ rec_log' = [rec_log EXCEPT !.last = "transcript_saved"]
                \/ /\ UNCHANGED txts
                   /\ rec_log' = [rec_log EXCEPT !.last = "transcript_raised"]
           ELSE /\ UNCHANGED txts
                /\ rec_log' = [rec_log EXCEPT !.last = "transcript_skipped"]
    /\ UNCHANGED <<current_mode, ui_mode, models, say_enabled, status_label,
                   ref_text_edit, comboVars, dir_exists, wavs, recording,
                   recorded_frames, input_stream, record_btn, clock, loaders,
                   workers, queue>>

\* ------------------------------------------------- generation specification
LoaderStep == \E l \in BagToSet(loaders) :
    _load_model_load(l) \/ _load_model_emit(l)

WorkerStep == \E w \in BagToSet(workers) :
    \/ _generate_synth(w)
    \/ _generate_emit_playing(w)
    \/ _generate_play(w)
    \/ _generate_except_status(w)
    \/ _generate_except_done(w)
    \/ _generate_done(w)

ControlStep == _on_model_ready \/ _set_status \/ _on_done

\* the user's actions on the generation side, with at most `loads` load
\* threads and `flight` generation threads running at once
UserGen(loads, flight) ==
    \/ \E t \in Texts : TypeRefText(t)
    \/ \E m \in Modes :
          /\ BagCardinality(loaders) < loads
          /\ _on_mode_changed(m)
    \/ \E t \in Texts :
          /\ BagCardinality(workers) < flight
          /\ _on_say(t)

NextGen ==
    UserGen(MaxBusyLoads, MaxWorkers) \/ LoaderStep \/ WorkerStep \/ ControlStep

SpecGen == Init /\ [][NextGen]_vars

NextFlight ==
    UserGen(MaxBusyLoads, MaxFlight) \/ LoaderStep \/ WorkerStep \/ ControlStep

SpecFlight == Init /\ [][NextFlight]_vars

\* the model cache alone: mode changes, load threads, model_ready
NextCache ==
    \/ \E m \in Modes :
          /\ BagCardinality(loaders) < MaxLoads
          /\ _on_mode_changed(m)
    \/ LoaderStep
    \/ _on_model_ready

SpecCache == Init /\ [][NextCache]_vars

\* threads run to completion and the Qt event loop delivers queued signals
Fairness ==
    /\ WF_vars(LoaderStep)
    /\ WF_vars(WorkerStep)
    /\ WF_vars(ControlStep)

FairSpecCache == SpecCache /\ Fairness

FairSpecGen == SpecGen /\ Fairness

\* ---------------------------------------------------- recorder specification
\* the user switches to the VoiceClone mode, whose layout shows the record
\* button, the sample combo and the transcript field, and records
UserRec ==
    \/ /\ BagCardinality(loaders) < MaxBusyLoads
       /\ _on_mode_changed("VoiceClone")
    \/ \E t \in Texts : TypeRefText(t)
    \/ \E i \in 1..Len(combo_items) : SelectSample(i)
    \/ /\ ui_mode = "VoiceClone"
       /\ _on_record_toggle

DriverStep == \E indata \in Chunks : callback(indata)

NextRec == UserRec \/ LoaderStep \/ _on_model_ready \/ DriverStep \/ Tick

SpecRec == Init /\ [][NextRec]_vars

\* ------------------------------------------------- transcript specification
\* the user switches to the VoiceClone mode, picks samples and edits and
\* saves their transcripts
UserLib ==
    \/ /\ BagCardinality(loaders) < MaxBusyLoads
       /\ _on_mode_changed("VoiceClone")
    \/ \E t \in Texts : TypeRefText(t)
    \/ \E i \in 1..Len(combo_items) : SelectSample(i)
    \/ /\ ui_mode = "VoiceClone"
       /\ _save_ref_text

NextLib == UserLib \/ LoaderStep \/ _on_model_ready

SpecLib == Init /\ [][NextLib]_vars

\* ================================================================== claims
\* every character of s is whitespace
IsBlank(s) == \A i \in 1..Len(s) : s[i] = " "

\* how often x occurs in the sequence s
CountOf(x, s) == Cardinality({i \in 1..Len(s) : s[i] = x})

\* the `done` signals waiting in the queue
QueuedDone == {i \in 1..Len(queue) : queue[i].sig = "done"}

\* the number of running _generate threads
InFlight == BagCardinality(workers)

\* C1: every _generate thread emits exactly one `done`: a running thread has
\* emitted none, a thread ends only in a step that posts its one `done`,
\* whatever failed; and the running threads do end.
C1_ExactlyOneDone ==
    /\ [](\A w \in BagToSet(workers) : CountOf(<<"done">>, w.emitted) = 0)
    /\ [](\A i \in QueuedDone : CountOf(<<"done">>, queue[i].src.emitted) = 1)
    /\ [][InFlight' < InFlight =>
            /\ Len(queue') = Len(queue) + 1
            /\ queue'[Len(queue')].sig = "done"]_vars
    /\ [][InFlight' >= InFlight =>
            \A i \in 1..Len(queue') :
                queue'[i].sig = "done" =>
                    \E j \in QueuedDone : queue[j] = queue'[i]]_vars
    /\ (InFlight = MaxWorkers) ~> (InFlight < MaxWorkers)

\* C1 witness: the `done` of a submission whose playback raised is waiting
C1_Witness ==
    \E i \in QueuedDone : queue[i].src.err = PlayError

\* C2: at most one generation thread is in flight at any time.
C2_SingleFlight == InFlight <= 1

\* what makes _on_say refuse the text t, stated on the widgets
Rejects(t) ==
    \/ IsBlank(t)
    \/ /\ current_mode = "VoiceClone"
       /\ \/ ~(dir_exists /\ currentText \in DOMAIN wavs)
          \/ IsBlank(ref_text_edit)

\* C3: a submit with blank text, or in VoiceClone mode with a missing sample
\* file or a blank reference transcript, starts no thread, posts nothing and
\* leaves the Say control as it was; no running thread ever carries a blank
\* text or, in VoiceClone mode, a blank transcript.
C3_RejectedSubmit ==
    /\ [][\A t \in Texts :
            (_on_say(t) /\ Rejects(t)) =>
                UNCHANGED <<workers, queue, say_enabled, models, loaders>>]_vars
    /\ [](\A w \in BagToSet(workers) :
            /\ ~IsBlank(w.text)
            /\ w.mode = "VoiceClone" =>
                 (w.ref_audio \in DOMAIN wavs /\ ~IsBlank(w.ref_text)))

\* C3 witness: a VoiceClone submit was refused for its blank transcript, and
\* the Say control is still enabled with no thread running
C3_Witness ==
    /\ status_label = <<"Enter reference text", None>>
    /\ say_enabled
    /\ InFlight = 0

\* C4: a submission whose synthesis raised posts the status "Error: <message>"
\* exactly once, then its `done`, and nothing else, and never calls sd.play.
C4_SynthErrorReported ==
    /\ \A w \in BagToSet(workers) : w.err = SynthError => w.play_calls = <<>>
    /\ \A i \in QueuedDone :
          queue[i].src.err = SynthError =>
             /\ queue[i].src.play_calls = <<>>
             /\ queue[i].src.emitted =
                  << <<"status", "Error: ", SynthError>>, <<"done">> >>

\* C4 witness: the `done` of a submission whose synthesis raised is waiting
C4_Witness ==
    \E i \in QueuedDone : queue[i].src.err = SynthError

\* C5: when the control thread has handled the `done` of a failed submission,
\* the status shows the error.
C5_ErrorStaysVisible ==
    [][(_on_done /\ Head(queue).src.err # None) =>
          status_label' = <<"Error: ", Head(queue).src.err>>]_vars

\* C6: a disabled Say control is eventually enabled again.
C6_SayReenabled == (~say_enabled) ~> say_enabled

\* the running load threads of a mode
LiveLoads(m) ==
    LET S == {l \in BagToSet(loaders) : l.mode = m}
        RECURSIVE Sum(_)
        Sum(T) == IF T = {} THEN 0
                  ELSE LET l == CHOOSE x \in T : TRUE
                       IN  CopiesIn(l, loaders) + Sum(T \ {l})
    IN  Sum(S)

\* C7: no mode has two loads: never two running load threads of one mode, and
\* none about to load a mode that is in the cache.
C7_LoadedOnce ==
    \A m \in Modes :
       /\ LiveLoads(m) <= 1
       /\ models[m] # NoModel =>
            \A l \in BagToSet(loaders) : l.mode = m => l.pc # "load"

\* the number of samples in a sequence of chunks
RECURSIVE SumLen(_)
SumLen(cs) == IF cs = <<>> THEN 0 ELSE Len(Head(cs)) + SumLen(Tail(cs))

\* a record toggle that stops a session
StopStep == recording /\ ~recording'

\* C8: a stop that ends a session in which the driver delivered at least one
\* chunk, and whose audio write the file system accepts, writes the file named
\* by the current second: one channel, 24000 Hz, as many samples as the chunks
\* of this session hold, in capture order; no other wave file is created,
\* changed or removed.
C8_OneWaveFile ==
    [][(StopStep /\ rec_log.session # <<>> /\ rec_log'.last # "wav_raised") =>
          /\ filename \in DOMAIN wavs'
          /\ wavs'[filename].nchannels = 1
          /\ wavs'[filename].framerate = 24000
          /\ Len(wavs'[filename].frames) = SumLen(rec_log.session)
          /\ wavs'[filename].frames = astype_int16(flatten(rec_log.session))
          /\ DOMAIN wavs' = DOMAIN wavs \cup {filename}
          /\ \A n \in DOMAIN wavs \ {filename} : wavs'[n] = wavs[n]]_vars

\* C8 witness: a second session of one 2-frame chunk was saved over a first
\* session's buffer of other content
C8_Witness ==
    /\ rec_log.last = "saved"
    /\ rec_log.session = << <<0, -1>> >>
    /\ \E n \in DOMAIN wavs : wavs[n].frames = <<0, -32767>>
    /\ \E n \in DOMAIN wavs : Len(wavs[n].frames) = 3

\* C9: a stop with no chunk in the buffer writes no file, leaves the sample
\* list alone, and ends not recording with the status "Ready".
C9_EmptyStop ==
    [][(StopStep /\ recorded_frames = <<>>) =>
          /\ UNCHANGED <<fsVars, comboVars>>
          /\ ~recording'
          /\ status_label' = <<"Ready", None>>]_vars

\* C10: the refresh after a saved recording selects the new recording.
C10_NewestSelected ==
    [][(StopStep /\ rec_log'.last = "saved") =>
          combo_items'[combo_index'] = filename]_vars

\* s without its leading and trailing blanks
Trim(s) ==
    LET nb == {i \in 1..Len(s) : s[i] # " "}
    IN  IF nb = {} THEN <<>>
        ELSE SubSeq(s, CHOOSE i \in nb : \A j \in nb : i <= j,
                       CHOOSE i \in nb : \A j \in nb : i >= j)

\* the transcript file of the selected item
SelectedTxt ==
    SubSeq(currentText, 1, Len(currentText) - 1) \o <<".txt">>

\* C11: a save of a text that is not blank writes the trimmed text to the
\* transcript of the selected sample and to no other file, and reading that
\* transcript back yields exactly the trimmed text; a save of a blank text
\* changes no file; picking a sample puts its trimmed transcript into the
\* field, and the empty string when the sample has no transcript.
C11_TranscriptRoundTrip ==
    /\ [][(_save_ref_text /\ currentText \in DOMAIN wavs
             /\ rec_log'.last # "transcript_raised") =>
            IF IsBlank(ref_text_edit) THEN UNCHANGED txts
            ELSE /\ DOMAIN txts' = DOMAIN txts \cup {SelectedTxt}
                 /\ txts'[SelectedTxt] = Trim(ref_text_edit)
                 /\ TranscriptOf(txts', currentText) = Trim(ref_text_edit)
                 /\ \A n \in DOMAIN txts \ {SelectedTxt} :
                       txts'[n] = txts[n]]_vars
    /\ [][(combo_index' # combo_index /\ UNCHANGED <<combo_items, txts>>) =>
            LET name == combo_items'[combo_index']
                txt == SubSeq(name, 1, Len(name) - 1) \o <<".txt">>
            IN  ref_text_edit' = IF txt \in DOMAIN txts THEN Trim(txts[txt])
                                 ELSE <<>>]_vars

\* C11 witness: a transcript typed with blanks around it was saved for the
\* earlier recording, a later save of a blank text was skipped, and picking
\* the recording again has read the trimmed text back
C11_Witness ==
    /\ currentText = <<"0", "8", ".wav">>
    /\ <<"0", "8", ".txt">> \in DOMAIN txts
    /\ txts[<<"0", "8", ".txt">>] = <<"a">>
    /\ ref_text_edit = <<"a">>
    /\ rec_log.last = "transcript_skipped"

\* C12: every submission that has ended called one synthesis entry point,
\* the one of its mode, once, with the text taken at submit time.
C12_OneEntryPoint ==
    \A i \in QueuedDone :
       LET w == queue[i].src
       IN  /\ Len(w.synth_calls) = 1
           /\ w.synth_calls[1].text = w.text
           /\ w.mode = "CustomVoice" =>
                 w.synth_calls[1].entry = "generate_custom_voice"
           /\ w.mode = "VoiceDesign" =>
                 w.synth_calls[1].entry = "generate_voice_design"
           /\ w.mode = "VoiceClone" => w.synth_calls[1].entry = "generate"

\* the _generate threads, running or ended with their `done` still queued
Submissions ==
    BagToSet(workers) \cup {queue[i].src : i \in QueuedDone}

\* C13: what a submission plays is its segments' audio, in order, at the
\* sample rate of the first segment.
C13_FirstSegmentRate ==
    \A w \in Submissions :
       \A k \in 1..Len(w.play_calls) :
          LET rs == w.synth_calls[1].returned
          IN  /\ w.play_calls[k].samplerate = rs[1].sample_rate
              /\ Len(w.play_calls[k].audio) = SumLen([i \in 1..Len(rs) |->
                                                       rs[i].audio])

\* C14: a stop whose wave file was written and whose transcript write raised
\* keeps the wave file, reports the recording as saved, lists the new sample
\* and ends not recording.
C14_TranscriptFailureNotFatal ==
    [][(StopStep /\ rec_log'.last = "txt_raised") =>
          /\ filename \in DOMAIN wavs'
          /\ ~recording'
          /\ status_label' = <<"Saved ", filename>>
          /\ \E i \in 1..Len(combo_items') : combo_items'[i] = filename]_vars

\* the status texts that report progress, not a refused submit
ProgressStatus ==
    {"Loading model...", "Loading model: ", "Ready", "Generating...",
     "Playing...", "Error: ", "Recording...", "Saved "}

\* C15: whenever the Say control is enabled, a submit that is refused for a
\* blank text, a missing sample or a blank transcript leaves the status set
\* to a message about the refusal.
C15_RejectionSurfaced ==
    \A t \in Texts :
       (say_enabled /\ Rejects(t)) =>
          ENABLED (/\ _on_say(t)
                   /\ status_label'[1] \notin ProgressStatus)

\* C16: the Say control is enabled only while the model of the selected mode
\* is in the cache, and no submission fails for a missing model.
C16_SayNeedsModel ==
    /\ say_enabled => models[current_mode] # NoModel
    /\ \A w \in Submissions : \A m \in Modes : w.err # KeyErrorMsg(m)

\* C17: the recording flag is set exactly while an input stream opened by the
\* last start is delivering.
C17_RecordingIffStream == recording <=> (input_stream = "active")

\* C18: every transcript file is the sibling of a wave file of the directory.
C18_TranscriptHasSample ==
    \A t \in DOMAIN txts :
       \E w \in DOMAIN wavs :
          /\ Len(t) = Len(w)
          /\ t[Len(t)] = ".txt"
          /\ w[Len(w)] = ".wav"
          /\ \A i \in 1..(Len(t) - 1) : t[i] = w[i]

====
